---- MODULE Spec2Model ----
(***************************************************************************)
(* Model of the hyperplane Bayesian decision tree engine:                  *)
(*   bayesian_decision_tree/base.py            (BaseNode)                  *)
(*   bayesian_decision_tree/base_hyperplane.py (BaseHyperplaneNode)        *)
(*                                                                         *)
(* A node is a record holding the fields that __init__ creates.  A Python  *)
(* value that may be None is modelled as a set with at most one element:   *)
(* {} is None and {v} is the value v.  Arrays are sequences; Python's      *)
(* 0-based row indices are the model's 1-based indices.                    *)
(*                                                                         *)
(* The optimizer (hyperplane_optimization.py) and the concrete node class  *)
(* (classification hooks _compute_posterior, _predict_leaf, _check_target) *)
(* are not part of the given source.  The optimizer is a nondeterministic  *)
(* choice of "no hyperplane" or any hyperplane of a bounded family; the    *)
(* hooks are those of the Dirichlet/multinomial classification family.     *)
(***************************************************************************)
EXTENDS Integers, Sequences, FiniteSets, TLC

\* ------------------------------------------------------------------ bounds
\* feature values are the integers 0..MaxX
MaxX == 2
\* a training set has at most MaxRows rows
MaxRows == 3
\* a predict input has at most MaxPredRows rows
MaxPredRows == 2
\* the feature counts (n_dim) that occur are 1..MaxDim
MaxDim == 2
\* a behaviour makes at most MaxFits fit calls
MaxFits == 2

\* a training set has at most MaxCells feature values (rows times features)
MaxCells == 4

\* the priors a root is constructed with: one weight per class
Priors == {<<1, 1>>, <<2, 1>>}

\* ------------------------------------------------------------------ helpers
Val(opt) == CHOOSE v \in opt : TRUE

Range(s) == {s[i] : i \in 1..Len(s)}

RECURSIVE Dot(_, _)
Dot(a, b) == IF Len(a) = 0 THEN 0 ELSE a[1] * b[1] + Dot(Tail(a), Tail(b))

\* X[indices] / y[indices]: numpy selection of rows by an index array
Take(arr, indices) == [k \in 1..Len(indices) |-> arr[indices[k]]]

\* np.arange(n), as the model's indices 1..n
Arange(n) == [i \in 1..n |-> i]

\* a row of d features: the first is x, the others are 0
FeatureRow(d, x) == [j \in 1..d |-> IF j = 1 THEN x ELSE 0]

\* X.shape[1]
NumFeatures(X) == Len(X[1])

\* ------------------------------------------------------------------ BaseNode.__init__
NewNode(prior, level) ==
    [ level                  |-> level,
      prior                  |-> prior,
      n_dim                  |-> {},
      posterior              |-> {},
      child1                 |-> {},
      child2                 |-> {},
      best_hyperplane_normal |-> {},
      best_hyperplane_origin |-> {} ]

\* ------------------------------------------------------------------ model hooks
\* number of labels equal to class c
RECURSIVE Count(_, _)
Count(y, c) == IF Len(y) = 0 THEN 0
               ELSE (IF y[1] = c THEN 1 ELSE 0) + Count(Tail(y), c)

\* posterior(y, strengthening): prior + delta * (class counts of y)
ComputePosterior(prior, y, delta) ==
    [c \in 1..Len(prior) |-> prior[c] + delta * Count(y, c - 1)]

\* np.argmax: the first index of the largest entry (as a 0-based class)
ArgMax(v) ==
    (CHOOSE c \in 1..Len(v) :
        /\ \A j \in 1..Len(v) : v[j] <= v[c]
        /\ \A j \in 1..(c - 1) : v[j] < v[c]) - 1

\* point prediction of a leaf: the class of largest posterior weight
PredictLeaf(self) == ArgMax(Val(self.posterior))

\* a target check that only asks for labels within 0..n_classes-1
CheckClassificationTargetInRange(self, y) ==
    Range(y) \subseteq 0..(Len(self.prior) - 1)

\* _check_classification_target: np.unique(y) == np.arange(0, n_classes)
CheckClassificationTarget(self, y) ==
    Range(y) = 0..(Len(self.prior) - 1)

\* _check_target of the classification node: the classification target check
CheckTarget(self, y) == CheckClassificationTarget(self, y)

\* ------------------------------------------------------------------ queries
\* an _ensure_is_fitted that does not compare the feature count
EnsureIsFittedNoDimension(self, X) ==
    IF self.posterior = {} THEN "ValueError: untrained model" ELSE ""

\* _ensure_is_fitted(X): "" when it returns, the error's type when it raises
EnsureIsFitted(self, X) ==
    IF self.posterior = {} THEN "ValueError: untrained model"
    ELSE IF X # {} /\ {NumFeatures(Val(X))} # self.n_dim
         THEN "ValueError: bad input dimensions"
    ELSE ""

\* is_leaf(): "True", "False", or the error _ensure_is_fitted() raises
is_leaf(self) ==
    IF EnsureIsFitted(self, {}) # "" THEN EnsureIsFitted(self, {})
    ELSE IF self.best_hyperplane_normal = {} THEN "True" ELSE "False"

\* is_leaf() on a node that is fitted
IsLeaf(self) == is_leaf(self) = "True"

Max(a, b) == IF a >= b THEN a ELSE b

\* an accounting that forgets what child1 reported
RECURSIVE UpdateDepthAndLeavesDropsChild1(_, _, _)
UpdateDepthAndLeavesDropsChild1(self, depth, leaves) ==
    IF IsLeaf(self) THEN <<Max(depth, self.level), leaves + 1>>
    ELSE IF self.child1 # {}
         THEN UpdateDepthAndLeavesDropsChild1(Val(self.child2), depth, leaves)
         ELSE <<depth, leaves>>

RECURSIVE UpdateDepthAndLeaves(_, _, _)
UpdateDepthAndLeaves(self, depth, leaves) ==
    IF IsLeaf(self) THEN <<Max(depth, self.level), leaves + 1>>
    ELSE IF self.child1 # {}
         THEN LET r1 == UpdateDepthAndLeaves(Val(self.child1), depth, leaves)
              IN  UpdateDepthAndLeaves(Val(self.child2), r1[1], r1[2])
         ELSE <<depth, leaves>>

DepthAndLeaves(self) == UpdateDepthAndLeaves(self, 0, 0)

\* the nodes of the tree below and including self, by child pointers
RECURSIVE Nodes(_)
Nodes(self) ==
    {self} \cup (IF self.child1 = {} THEN {} ELSE Nodes(Val(self.child1)))
           \cup (IF self.child2 = {} THEN {} ELSE Nodes(Val(self.child2)))

\* ------------------------------------------------------------------ predict
\* X @ normal - np.dot(normal, origin), one signed distance per row
Projections(X, normal, origin) ==
    [i \in 1..Len(X) |-> Dot(X[i], normal) - Dot(normal, origin)]

\* np.where(projections < 0)[0]
Indices1(projections) ==
    LET Neg(i) == projections[i] < 0 IN SelectSeq(Arange(Len(projections)), Neg)

\* a partition that loses the rows lying on the hyperplane
Indices2Strict(projections) ==
    LET Pos(i) == projections[i] > 0 IN SelectSeq(Arange(Len(projections)), Pos)

\* np.where(projections >= 0)[0]
Indices2(projections) ==
    LET NonNeg(i) == projections[i] >= 0 IN SelectSeq(Arange(Len(projections)), NonNeg)

ComputeChild1AndChild2Indices(self, X) ==
    LET projections == Projections(X, Val(self.best_hyperplane_normal),
                                      Val(self.best_hyperplane_origin))
    IN  <<Indices1(projections), Indices2(projections)>>

\* np.zeros(len_X) for class predictions
CreateMergedPredictionsArray(X) == [i \in 1..Len(X) |-> 0]

\* predictions_merged[indices] = predictions
Assign(merged, indices, predictions) ==
    [i \in 1..Len(merged) |->
        IF \E k \in 1..Len(indices) : indices[k] = i
        THEN predictions[CHOOSE k \in 1..Len(indices) : indices[k] = i]
        ELSE merged[i]]

\* _predict(X, predict_class=True): [error, value]; error is "" on return
RECURSIVE PredictNode(_, _)
PredictNode(self, X) ==
    IF is_leaf(self) \notin {"True", "False"}
    THEN [error |-> is_leaf(self), value |-> <<>>]
    ELSE IF IsLeaf(self)
    THEN [error |-> "", value |-> [i \in 1..Len(X) |-> PredictLeaf(self)]]
    ELSE IF Len(Val(self.best_hyperplane_normal)) # NumFeatures(X)
    THEN \* X @ normal: shapes do not match
         [error |-> "ValueError: matmul shape mismatch", value |-> <<>>]
    ELSE LET ind    == ComputeChild1AndChild2Indices(self, X)
             none   == [error |-> "", value |-> <<>>]
             p1     == IF Len(ind[1]) > 0
                       THEN PredictNode(Val(self.child1), Take(X, ind[1]))
                       ELSE none
             p2     == IF Len(ind[2]) > 0
                       THEN PredictNode(Val(self.child2), Take(X, ind[2]))
                       ELSE none
             merged == Assign(Assign(CreateMergedPredictionsArray(X), ind[1], p1.value),
                              ind[2], p2.value)
         IN  IF p1.error # "" THEN p1
             ELSE IF p2.error # "" THEN p2
             ELSE [error |-> "", value |-> merged]

\* predict(X)
PredictCall(self, X) ==
    IF EnsureIsFitted(self, {X}) # ""
    THEN [error |-> EnsureIsFitted(self, {X}), value |-> <<>>]
    ELSE PredictNode(self, X)

\* ------------------------------------------------------------------ prune
\* a collapse that forgets to drop child2
CollapseKeepsChild2(self) ==
    [self EXCEPT !.child1 = {},
                 !.best_hyperplane_normal = {}, !.best_hyperplane_origin = {}]

\* the collapse of _prune: children and split representation set to None
Collapse(self) ==
    [self EXCEPT !.child1 = {}, !.child2 = {},
                 !.best_hyperplane_normal = {}, !.best_hyperplane_origin = {}]

\* a _prune that does not run again after a collapse below it
RECURSIVE PruneNodeOnce(_)
PruneNodeOnce(self) ==
    IF IsLeaf(self) THEN [node |-> self, calls |-> 1]
    ELSE
      LET c1 == Val(self.child1)
          c2 == Val(self.child2)
      IN  IF IsLeaf(c1) /\ IsLeaf(c2)
          THEN IF PredictLeaf(c1) = PredictLeaf(c2)
               THEN [node |-> Collapse(self), calls |-> 1]
               ELSE [node |-> self, calls |-> 1]
          ELSE LET p1 == PruneNodeOnce(c1)
                   p2 == PruneNodeOnce(c2)
               IN  [node  |-> [self EXCEPT !.child1 = {p1.node}, !.child2 = {p2.node}],
                    calls |-> 1 + p1.calls + p2.calls]

\* _prune() on a tree whose nodes are all fitted:
\* [node: the node afterwards, calls: the number of _prune invocations]
RECURSIVE PruneNode(_)
PruneNode(self) ==
    LET depth_and_leaves_start == DepthAndLeaves(self) IN
    IF IsLeaf(self) THEN [node |-> self, calls |-> 1]
    ELSE
      LET c1 == Val(self.child1)
          c2 == Val(self.child2)
          body ==
            IF IsLeaf(c1) /\ IsLeaf(c2)
            THEN IF PredictLeaf(c1) = PredictLeaf(c2)
                 THEN [node |-> Collapse(self), calls |-> 1]
                 ELSE [node |-> self, calls |-> 1]
            ELSE LET p1 == PruneNode(c1)
                     p2 == PruneNode(c2)
                 IN  [node  |-> [self EXCEPT !.child1 = {p1.node}, !.child2 = {p2.node}],
                      calls |-> 1 + p1.calls + p2.calls]
      IN  IF depth_and_leaves_start # DepthAndLeaves(body.node)
          THEN LET again == PruneNode(body.node)
               IN  [node |-> again.node, calls |-> body.calls + again.calls]
          ELSE body

\* some is_leaf() of the traversal raises: a node without posterior
Untrained(self) == \E n \in Nodes(self) : n.posterior = {}

\* ------------------------------------------------------------------ fit
\* optimizer.solve(optimization_function) on the data X: afterwards the
\* function's best hyperplane is None ({}) or a hyperplane over X's features
Solve(X) ==
    {{}} \cup
    { {[normal |-> FeatureRow(NumFeatures(X), s), origin |-> FeatureRow(NumFeatures(X), o)]} :
        s \in {1}, o \in 0..(MaxX + 1) }

\* one entry of the log of a fit call: a _fit invocation on the node at path
\* (call = "_fit") with targets y, the optimizer's answer and the index arrays
\* computed from it; or a child that got its posterior directly (call = "direct")
LogEntry(path, y, call, hp, indices1, indices2) ==
    [path |-> path, y |-> y, call |-> call, hp |-> hp,
     indices1 |-> indices1, indices2 |-> indices2]

\* a recursion that also descends into a child of one row
HasDataLeftToSplitAny(X) == Len(X) > 0

\* X1.shape[0] > 1: the child is trained recursively
HasDataLeftToSplit(X) == Len(X) > 1

\* a child of one row that is left without posterior
DirectPosteriorNotStored(self, y) == {}

\* self.child.posterior = self._compute_posterior(y) for a child of one row
DirectPosterior(self, y) == {ComputePosterior(self.prior, y, 1)}

\* _fit(X, y, ...): the set of [node, log] over every answer the optimizer
\* can give here and in the recursive calls
RECURSIVE FitSet(_, _, _, _)
RECURSIVE FitWith(_, _, _, _, _)
FitSet(self, X, y, path) ==
    UNION { FitWith(self, X, y, path, hp) : hp \in Solve(X) }

FitWith(self, X, y, path, hp) ==
    LET Finish(node) ==
            [node EXCEPT !.n_dim = {NumFeatures(X)},
                         !.posterior = {ComputePosterior(self.prior, y, 1)}]
    IN
    IF hp = {}
    THEN { [node |-> Finish(self),
            log  |-> {LogEntry(path, y, "_fit", hp, <<>>, <<>>)}] }
    ELSE
      LET projections == Projections(X, Val(hp).normal, Val(hp).origin)
          indices1 == Indices1(projections)
          indices2 == Indices2(projections)
          here == LogEntry(path, y, "_fit", hp, indices1, indices2)
      IN
      IF Len(indices1) > 0 /\ Len(indices2) > 0
      THEN
        LET X1 == Take(X, indices1)
            X2 == Take(X, indices2)
            y1 == Take(y, indices1)
            y2 == Take(y, indices2)
            prior_child1 == ComputePosterior(self.prior, y1, 0)
            prior_child2 == ComputePosterior(self.prior, y2, 0)
            new1 == NewNode(prior_child1, self.level + 1)
            new2 == NewNode(prior_child2, self.level + 1)
            fits1 == IF HasDataLeftToSplit(X1)
                     THEN FitSet(new1, X1, y1, Append(path, 1))
                     ELSE { [node |-> [new1 EXCEPT !.posterior = DirectPosterior(self, y1)],
                             log  |-> {LogEntry(Append(path, 1), y1, "direct", {}, <<>>, <<>>)}] }
            fits2 == IF HasDataLeftToSplit(X2)
                     THEN FitSet(new2, X2, y2, Append(path, 2))
                     ELSE { [node |-> [new2 EXCEPT !.posterior = DirectPosterior(self, y2)],
                             log  |-> {LogEntry(Append(path, 2), y2, "direct", {}, <<>>, <<>>)}] }
        IN  { [node |-> Finish([self EXCEPT !.best_hyperplane_normal = {Val(hp).normal},
                                            !.best_hyperplane_origin = {Val(hp).origin},
                                            !.child1 = {f1.node},
                                            !.child2 = {f2.node}]),
               log  |-> {here} \cup f1.log \cup f2.log] :
              f1 \in fits1, f2 \in fits2 }
      ELSE { [node |-> Finish(self), log |-> {here}] }

\* ------------------------------------------------------------------ inputs
\* the feature columns of a data set: distinct values in increasing order
XSeqs(n) == {s \in [1..n -> 0..MaxX] : \A i \in 1..(n - 1) : s[i] < s[i + 1]}

\* labels a caller may pass: the two classes of the priors
Labels == {0, 1}

\* the shapes <<rows, features>> of the training sets
Shapes == {sh \in (1..MaxRows) \X (1..MaxDim) : sh[1] * sh[2] <= MaxCells}

TrainSets ==
    UNION { { [X |-> [i \in 1..sh[1] |-> FeatureRow(sh[2], s[i])], y |-> l] :
                s \in XSeqs(sh[1]), l \in [1..sh[1] -> Labels] } :
            sh \in Shapes }

\* predict inputs: any rows, in any order
PredictSets ==
    UNION { { [i \in 1..n |-> FeatureRow(d, s[i])] : s \in [1..n -> 0..MaxX] } :
            n \in 1..MaxPredRows, d \in 1..MaxDim }

\* delta as passed by the caller (0 is the default; -1 and 2 lie outside [0, 1])
Deltas == {-1, 0, 2}

\* ------------------------------------------------------------------ state
VARIABLES
    root,    \* the root node, with its subtree
    train,   \* {} or {[X, y]}: the data of the last fit call that reached _fit
    fitlog,  \* the log of the _fit invocations of the last fit call
    nfit,    \* the number of fit calls so far
    out      \* the last call: its name, arguments, error and result

vars == <<root, train, fitlog, nfit, out>>

Init ==
    /\ \E prior \in Priors : root = NewNode(prior, 0)
    /\ train = {}
    /\ fitlog = {}
    /\ nfit = 0
    /\ out = [op |-> "init", error |-> ""]

\* delta < 0.0 or delta > 1.0
DeltaOutOfRange(delta) == delta < 0 \/ delta > 1

\* fit(X, y, delta, prune)
Fit(X, y, delta, prune) ==
    LET invalid ==
            IF root.level = 0 /\ ~CheckTarget(root, y)
            THEN "AssertionError"
            ELSE IF DeltaOutOfRange(delta) THEN "ValueError: delta"
            ELSE ""
    IN
    /\ nfit < MaxFits
    /\ nfit' = nfit + 1
    /\ IF invalid # ""
       THEN /\ out' = [op |-> "fit", error |-> invalid, labels |-> Range(y),
                       delta |-> delta, prune |-> prune]
            /\ fitlog' = {}
            /\ UNCHANGED <<root, train>>
       ELSE \E f \in FitSet(root, X, y, <<>>) :
            LET \* _prune() raises at the first is_leaf() of a node without posterior
                raised == prune /\ Untrained(f.node)
                pruned == IF prune /\ ~raised THEN PruneNode(f.node)
                          ELSE [node |-> f.node, calls |-> 0]
            IN  /\ root' = pruned.node
                /\ train' = {[X |-> X, y |-> y]}
                /\ fitlog' = f.log
                /\ out' = [op |-> "fit",
                           error |-> IF raised THEN "ValueError: untrained model" ELSE "",
                           labels |-> Range(y),
                           delta |-> delta, prune |-> prune, fitted |-> f.node,
                           calls |-> pruned.calls]

\* _prune() called on the root
Prune ==
    IF Untrained(root)
    THEN /\ out' = [op |-> "prune", error |-> "ValueError: untrained model"]
         /\ UNCHANGED <<root, train, fitlog, nfit>>
    ELSE LET pruned == PruneNode(root)
         IN  /\ root' = pruned.node
             /\ out' = [op |-> "prune", error |-> "", before |-> root,
                        calls |-> pruned.calls]
             /\ UNCHANGED <<train, fitlog, nfit>>

\* predict(X), for each input X of PredictSets in turn
Predict ==
    /\ out' = [op |-> "predict", results |-> [X \in PredictSets |-> PredictCall(root, X)]]
    /\ UNCHANGED <<root, train, fitlog, nfit>>

\* depth_and_leaves()
DepthAndLeavesCall ==
    /\ out' = IF Untrained(root)
              THEN [op |-> "depth_and_leaves", error |-> "ValueError: untrained model"]
              ELSE [op |-> "depth_and_leaves", error |-> "", value |-> DepthAndLeaves(root)]
    /\ UNCHANGED <<root, train, fitlog, nfit>>

Next ==
    \/ \E d \in TrainSets, delta \in Deltas, prune \in BOOLEAN : Fit(d.X, d.y, delta, prune)
    \/ Prune
    \/ Predict
    \/ DepthAndLeavesCall

Spec == Init /\ [][Next]_vars

\* ------------------------------------------------------------------ properties
\* the paths (1 = child1, 2 = child2) from self to the nodes of its tree
RECURSIVE Paths(_)
Paths(self) ==
    {<<>>}
    \cup (IF self.child1 = {} THEN {} ELSE {<<1>> \o p : p \in Paths(Val(self.child1))})
    \cup (IF self.child2 = {} THEN {} ELSE {<<2>> \o p : p \in Paths(Val(self.child2))})

RECURSIVE NodeAt(_, _)
NodeAt(self, path) ==
    IF path = <<>> THEN self
    ELSE NodeAt(Val(IF path[1] = 1 THEN self.child1 ELSE self.child2), Tail(path))

LeafPaths(self) == {p \in Paths(self) : NodeAt(self, p).best_hyperplane_normal = {}}

\* the last call was a prune that ran to its end: _prune(), or fit(prune=True)
Pruned ==
    \/ out.op = "prune" /\ out.error = ""
    \/ out.op = "fit" /\ out.error = "" /\ out.prune

\* the tree the last prune started from
BeforePrune == IF out.op = "prune" THEN out.before ELSE out.fitted

\* the last call was a fit that reached _fit
FitRan == out.op = "fit" /\ out.error = ""

PruneFixpoint ==
    Pruned =>
        /\ out.calls >= 1
        /\ out.calls <= Cardinality(Paths(BeforePrune)) * Cardinality(Paths(BeforePrune))
        /\ \A n \in Nodes(root) :
              (/\ n.best_hyperplane_normal # {}
               /\ IsLeaf(Val(n.child1))
               /\ IsLeaf(Val(n.child2)))
              => PredictLeaf(Val(n.child1)) # PredictLeaf(Val(n.child2))
        /\ PruneNode(root).node = root
        /\ DepthAndLeaves(PruneNode(root).node) = DepthAndLeaves(root)

\* a prune collapsed a tree of depth 2 into a single leaf
PruneFixpointWitness ==
    /\ Pruned
    /\ DepthAndLeaves(BeforePrune)[1] = 2
    /\ DepthAndLeaves(root) = <<0, 1>>

\* C5: in every fit call, at every node where _fit stored a split, the index
\* arrays indices1 and indices2 have no row in common and no row twice, together
\* they hold every row of the node, indices1 holds the rows of negative signed
\* distance, and each child was given exactly its array's rows
PartitionCoverage ==
    FitRan =>
        \A e \in fitlog :
            (e.call = "_fit" /\ Len(e.indices1) > 0 /\ Len(e.indices2) > 0) =>
                /\ Range(e.indices1) \cap Range(e.indices2) = {}
                /\ Range(e.indices1) \cup Range(e.indices2) = 1..Len(e.y)
                /\ Len(e.indices1) + Len(e.indices2) = Len(e.y)
                /\ NodeAt(out.fitted, e.path).best_hyperplane_normal = {Val(e.hp).normal}
                /\ \E c1 \in fitlog : c1.path = Append(e.path, 1) /\ c1.y = Take(e.y, e.indices1)
                /\ \E c2 \in fitlog : c2.path = Append(e.path, 2) /\ c2.y = Take(e.y, e.indices2)

\* a fit split the root 1 : 2 and then split the child of two rows
PartitionCoverageWitness ==
    /\ FitRan
    /\ \E e \in fitlog :
          e.path = <<>> /\ e.call = "_fit" /\ Len(e.indices1) = 1 /\ Len(e.indices2) = 2
    /\ \E e \in fitlog :
          e.path = <<2>> /\ e.call = "_fit" /\ Len(e.indices1) = 1 /\ Len(e.indices2) = 1

\* C6: depth_and_leaves() on the root returns (d, n): n is the number of leaves
\* reachable from the root and d the largest level among them
DepthLeafAccounting ==
    (out.op = "depth_and_leaves" /\ out.error = "") =>
        /\ out.value[2] = Cardinality(LeafPaths(root))
        /\ \E p \in LeafPaths(root) : NodeAt(root, p).level = out.value[1]
        /\ \A p \in LeafPaths(root) : NodeAt(root, p).level <= out.value[1]

\* depth_and_leaves() was called on a pruned tree of depth 2 with 3 leaves
DepthLeafAccountingWitness ==
    /\ out.op = "depth_and_leaves" /\ out.error = ""
    /\ out.value = <<2, 3>>
    /\ PruneNode(root).node = root

\* the class of the leaf that routing one row from self arrives at
RECURSIVE LeafReached(_, _)
LeafReached(self, row) ==
    IF self.best_hyperplane_normal = {} THEN PredictLeaf(self)
    ELSE IF Dot(row, Val(self.best_hyperplane_normal))
            - Dot(Val(self.best_hyperplane_normal), Val(self.best_hyperplane_origin)) < 0
         THEN LeafReached(Val(self.child1), row)
         ELSE LeafReached(Val(self.child2), row)

\* C2: predict(X) on a fitted root, X having the fitted feature count, returns
\* one entry per row, and entry i is the prediction of the leaf that row i alone
\* is routed to
RowOrderPreserved ==
    (out.op = "predict" /\ root.posterior # {}) =>
        \A X \in PredictSets :
            ({NumFeatures(X)} = root.n_dim) =>
                /\ out.results[X].error = ""
                /\ Len(out.results[X].value) = Len(X)
                /\ \A i \in 1..Len(X) : out.results[X].value[i] = LeafReached(root, X[i])

\* C3: a prune that ran to its end left the prediction of every training row
\* as it was before the prune
PruneKeepsPredictions ==
    (Pruned /\ train # {}) =>
        PredictCall(root, Val(train).X) = PredictCall(BeforePrune, Val(train).X)

StateErrors == {"ValueError: untrained model", "ValueError: bad input dimensions"}

\* C8: predict(X) on a node without posterior, or with a feature count other
\* than n_dim, raises the value error of _ensure_is_fitted, returns nothing and
\* changes no node; on a fitted node with the fitted feature count it never
\* raises that error
PredictStateErrors ==
    [][ (out'.op = "predict") =>
        /\ root' = root
        /\ \A X \in PredictSets :
              /\ (root.posterior = {} \/ root.n_dim # {NumFeatures(X)}) =>
                    /\ out'.results[X].error \in StateErrors
                    /\ out'.results[X].value = <<>>
              /\ (root.posterior # {} /\ root.n_dim = {NumFeatures(X)}) =>
                    out'.results[X].error \notin StateErrors ]_vars

\* predict ran on a fitted internal root: inputs of the fitted feature count
\* were predicted, the others were refused
PredictStateErrorsWitness ==
    /\ out.op = "predict"
    /\ root.best_hyperplane_normal # {}
    /\ \E X \in PredictSets : out.results[X].error = "ValueError: bad input dimensions"
    /\ \E X \in PredictSets : out.results[X].error = "" /\ Len(X) = 2

\* C9: the first fit of a root, with prune=True, a valid delta and all labels
\* equal to 1, ends without error and leaves the root a single leaf
SingleLabelStaysLeaf ==
    (/\ out.op = "fit"
     /\ nfit = 1
     /\ out.labels = {1}
     /\ out.prune
     /\ ~DeltaOutOfRange(out.delta))
    => (/\ out.error = ""
        /\ is_leaf(root) = "True"
        /\ root.child1 = {} /\ root.child2 = {}
        /\ DepthAndLeaves(root) = <<0, 1>>)

\* the side k of log entry e (a _fit that stored a split) got exactly one row
OneRowSide(e, k) ==
    /\ e.call = "_fit"
    /\ Len(e.indices1) > 0 /\ Len(e.indices2) > 0
    /\ Len(IF k = 1 THEN e.indices1 ELSE e.indices2) = 1

\* C10: when a fit splits a node and a side gets exactly one row, that child is
\* at level + 1, has the posterior of that one row, was not handed to _fit or
\* to the optimizer, and is a leaf without children; a fit of 2 rows that the
\* root's hyperplane separates gives depth 1 and two leaves
SingleSampleDirect ==
    FitRan =>
        /\ \A e \in fitlog : \A k \in {1, 2} :
              OneRowSide(e, k) =>
                LET parent == NodeAt(out.fitted, e.path)
                    child  == NodeAt(out.fitted, Append(e.path, k))
                    yk     == Take(e.y, IF k = 1 THEN e.indices1 ELSE e.indices2)
                IN  /\ child.level = parent.level + 1
                    /\ child.posterior = {ComputePosterior(parent.prior, yk, 1)}
                    /\ \A c \in fitlog : c.path = Append(e.path, k) => c.call = "direct"
                    /\ child.child1 = {} /\ child.child2 = {}
                    /\ child.best_hyperplane_normal = {}
                    /\ is_leaf(child) = "True"
        /\ \A e \in fitlog :
              (e.path = <<>> /\ Len(e.y) = 2 /\ OneRowSide(e, 1) /\ OneRowSide(e, 2))
              => DepthAndLeaves(out.fitted) = <<1, 2>>

\* a fit of 3 rows split the root and then a child into one-row leaves
SingleSampleDirectWitness ==
    /\ FitRan
    /\ \E e \in fitlog : e.path # <<>> /\ OneRowSide(e, 1) /\ OneRowSide(e, 2)
    /\ \E e \in fitlog : e.path = <<>> /\ (OneRowSide(e, 1) \/ OneRowSide(e, 2))

\* the optimizer's answer in log entry e (a _fit invocation) is no hyperplane,
\* or a hyperplane with every row of the node on one side
NoSplit(e) ==
    /\ e.call = "_fit"
    /\ (e.hp = {} \/ Len(e.indices1) = 0 \/ Len(e.indices2) = 0)

\* C11: when a fit call returns, every node whose _fit got no hyperplane, or a
\* hyperplane with an empty side, stores no hyperplane, has child1 = child2 =
\* None and is_leaf() true; and every stored split has two non-empty sides
RejectedSplitLeavesLeaf ==
    FitRan =>
        /\ \A e \in fitlog :
              NoSplit(e) =>
                LET n == NodeAt(out.fitted, e.path)
                IN  /\ n.best_hyperplane_normal = {}
                    /\ n.best_hyperplane_origin = {}
                    /\ n.child1 = {} /\ n.child2 = {}
                    /\ is_leaf(n) = "True"
        /\ \A e \in fitlog :
              (e.call = "_fit" /\ ~NoSplit(e)) =>
                 NodeAt(out.fitted, e.path).best_hyperplane_normal = {Val(e.hp).normal}

\* the path of the parent of the node at a non-empty path
ParentPath(path) == SubSeq(path, 1, Len(path) - 1)

\* C12: a fit call on n rows returns after at most 2n - 1 _fit invocations and
\* direct posteriors; every recursive _fit invocation on a child got at least 2
\* rows and fewer rows than its parent's invocation; and the tree when _fit
\* returns has depth at most n - 1 and at most n leaves
FitTerminatesBounded ==
    FitRan =>
        LET n == Len(Val(train).X)
        IN  /\ Cardinality(fitlog) <= 2 * n - 1
            /\ \A e \in fitlog :
                  (e.call = "_fit" /\ e.path # <<>>) =>
                      /\ Len(e.y) >= 2
                      /\ \E p \in fitlog :
                            /\ p.path = ParentPath(e.path)
                            /\ p.call = "_fit"
                            /\ Len(e.y) < Len(p.y)
            /\ DepthAndLeaves(out.fitted)[1] <= n - 1
            /\ DepthAndLeaves(out.fitted)[2] <= n

\* C13: once a fit has returned on the root, every node reachable from the
\* root has a posterior and is_leaf() returns on it; the _prune of a fit call
\* does not raise, and _prune(), depth_and_leaves() and predict(X) on the root
\* do not raise the untrained-model error
PosteriorAlwaysStored ==
    /\ (root.posterior # {}) =>
          /\ \A n \in Nodes(root) :
                n.posterior # {} /\ is_leaf(n) \in {"True", "False"}
          /\ ~Untrained(root)
          /\ (out.op \in {"prune", "depth_and_leaves"}) => out.error = ""
          /\ (out.op = "predict") =>
                \A X \in PredictSets :
                    out.results[X].error # "ValueError: untrained model"
    /\ (out.op = "fit") => out.error \in {"", "AssertionError", "ValueError: delta"}
    /\ FitRan =>
          /\ root.posterior # {}
          /\ \A p \in Paths(out.fitted) : NodeAt(out.fitted, p).posterior # {}
          /\ \A e \in fitlog : NodeAt(out.fitted, e.path).posterior # {}

\* depth_and_leaves() ran on a tree of a second fit that holds a node that did
\* not split, a node that split and a child of one row
PosteriorAlwaysStoredWitness ==
    /\ out.op = "depth_and_leaves" /\ out.error = ""
    /\ nfit = 2
    /\ \E e \in fitlog : NoSplit(e) /\ e.path # <<>>
    /\ \E e \in fitlog : e.call = "direct"
    /\ \E e \in fitlog : e.call = "_fit" /\ ~NoSplit(e)

====
